---- MODULE Spec2Model ----
(***************************************************************************)
(* Verification model of the Termux BDI agent (src/termux_bdi_agent):      *)
(* the Desire System (desire_lite.py), the Belief System (belief_lite.py), *)
(* the Intention System (intention_lite.py) and the run loop of the agent  *)
(* (main.py, coordinator.py), and of the action planner and the desire    *)
(* optimizer of the workflow (src/github_actions_quantum/quantum/          *)
(* intention_quantum.py, desire_quantum.py).                               *)
(*                                                                         *)
(* Numbers.  The REAL columns and Python floats are modelled in fixed      *)
(* point: target_value, current_value and weight in tenths (VScale),       *)
(* priority, urgency, gap_score in thousandths (Scale) and the ranking     *)
(* score in ten-thousandths (SScale).  A division truncates to the         *)
(* resolution of its result.  Timestamps and durations are left out.       *)
(***************************************************************************)
EXTENDS Integers, Sequences, FiniteSets, TLC

VARIABLES
    desires,               \* table desires: the rows, in rowid order
    desire_optimizations,  \* table desire_optimizations: the rows, in order
    belief_context,        \* the cycle summary given to the last optimize_desires
    desire_context,        \* what the last optimize_desires returned
    beliefs,               \* table beliefs: the rows, in rowid order
    belief_clock,          \* datetime.now() of the Belief System: calls so far
    probes,                \* what each source's probe did in the last update_beliefs
    belief_results,        \* what the last update_beliefs returned
    source_call,           \* the arguments of the last process_source_data
    source_result,         \* what the last process_source_data returned
    belief_op,             \* the method of the Belief System called last
    action_executions,     \* table action_executions: the rows, in order
    invocations,           \* the calls of an action function, in order
    intention_context,     \* the desire context given to the last execute_intentions
    intention_result,      \* what the last execute_intentions returned
    intention_calls,       \* the number of execute_intentions calls so far
    seed_calls,            \* the number of DesireSystemLite constructions so far
    seed_raised,           \* whether the last construction raised an exception
    plan_desires,          \* the selected desires given to the last generate_action_plan
    optimized_plan,        \* the actions its optimizer selected
    plan_results,          \* what the call returned, or that it raised
    plan_calls,            \* the number of generate_action_plan calls so far
    quantum_problem,       \* the problem given to the last solve_qaoa_optimization
    quantum_results,       \* what each solve_qaoa_optimization returned, in order
    pc,                    \* where the main thread is in start and run_bdi_cycle
    running,               \* self.running
    cycle_count,           \* self.cycle_count
    signalled,             \* whether a termination signal has been received
    signal_at,             \* pc and cycle_count when the signal was received
    statuses,              \* the status reports posted to the remote coordinator
    dispatches,            \* the workflow dispatch requests sent, with their outcome
    store_closed,          \* whether self.db.close() has run
    wall_clock,            \* datetime.now(), in seconds
    cycle_started,         \* datetime.now() when the cycle in flight or last run began
    remote_calls,          \* the calls to the coordinator made by the last step
    last_github_trigger,   \* self.last_github_trigger, in seconds
    vercel_url,            \* integration.vercel_url of config.json, "" if not set
    github_repository,     \* integration.github_repository, "" if not set
    optimize_raised,       \* whether the cycle's optimize_desires caught an exception
    command_outcome        \* what the cycle's termux-notification command did

dvars == <<desires, desire_optimizations, belief_context, desire_context>>

bvars == <<beliefs, belief_clock, probes, belief_results, source_call,
          source_result, belief_op>>

ivars == <<action_executions, invocations, intention_context, intention_result,
          intention_calls>>

svars == <<seed_calls, seed_raised>>

pvars == <<plan_desires, optimized_plan, plan_results, plan_calls>>

qvars == <<quantum_problem, quantum_results>>

avars == <<pc, running, cycle_count, signalled, signal_at, statuses, dispatches,
          store_closed, wall_clock, cycle_started, remote_calls,
          last_github_trigger, vercel_url,
          github_repository,
          optimize_raised, command_outcome>>

vars == <<dvars, bvars, ivars, svars, pvars, qvars, avars>>

(***************************************************************************)
(* Bounds of the model.                                                    *)
(***************************************************************************)
MaxCycles == 3
MaxBeliefCalls == 2
MaxItems == 3
MaxExecutions == 3
MaxSeedCalls == 2
MaxPlanCalls == 2
MaxSelected == 3
MaxAgentCycles == 2
MaxSolveCalls == 2

(***************************************************************************)
(* Fixed point.                                                            *)
(***************************************************************************)
VScale == 10
Scale == 1000
SScale == 10 * Scale

Abs(x) == IF x < 0 THEN -x ELSE x
Min(a, b) == IF a <= b THEN a ELSE b
Max(a, b) == IF a >= b THEN a ELSE b

\* a literal value such as 100.0 or 5.0, in tenths
V(x) == x * VScale

(***************************************************************************)
(* The rows of table desires.                                              *)
(***************************************************************************)
Desire(id, name, type, target, current, priority, weight, status) ==
    [id |-> id, name |-> name, type |-> type, target_value |-> target,
     current_value |-> current, priority |-> priority, weight |-> weight,
     status |-> status]

\* init_default_desires: the four default desires
default_desires ==
    << Desire("revenue_generation", "Revenue Generation", "financial",
              V(50000), V(0), 900, 10, "active"),
       Desire("system_efficiency", "System Efficiency", "performance",
              V(95), V(80), 800, 8, "active"),
       Desire("user_satisfaction", "User Satisfaction", "quality",
              V(90), V(75), 700, 6, "active"),
       Desire("cost_optimization", "Cost Optimization", "financial",
              V(0), V(100), 600, 5, "active") >>

\* registries found in the database file when the agent is constructed
stored_desires ==
    << Desire("debt_reduction", "Debt Reduction", "financial",
              V(-20), V(10), 500, 15, "active"),
       Desire("uptime", "Uptime", "performance",
              V(100), V(98), 0, 0, "active"),
       Desire("accuracy", "Accuracy", "quality",
              V(100), 995, 1000, 10, "active"),
       Desire("stability", "Stability", "quality",
              V(50), V(1), 300, 3, "active"),
       Desire("learning", "Learning", "learning",
              V(10), V(4), 500, 5, "active"),
       Desire("exploration", "Exploration", "learning",
              V(10), V(4), 450, 6, "active"),
       Desire("retired", "Retired", "quality",
              V(90), V(50), 900, 10, "inactive") >>

retired_desires ==
    << Desire("legacy", "Legacy", "performance",
              V(60), V(30), 1000, 10, "inactive") >>

Registries == { <<>>, stored_desires, retired_desires }

(***************************************************************************)
(* Table access (DesireSystemLite).                                        *)
(***************************************************************************)
\* SELECT COUNT(*) FROM desires WHERE status = 'active'
get_desires_count(table) ==
    Cardinality({i \in 1..Len(table) : table[i].status = "active"})

\* id TEXT PRIMARY KEY: a row of that id is stored, whatever its status
id_stored(table, id) == \E i \in 1..Len(table) : table[i].id = id

\* whether the INSERT raises sqlite3.IntegrityError
insert_conflicts(table, desire) == id_stored(table, desire.id)

\* INSERT INTO desires, committed at once; status takes its default 'active'
insert_desire(table, desire) ==
    IF insert_conflicts(table, desire)
    THEN [raised |-> TRUE, table |-> table]
    ELSE [raised |-> FALSE, table |-> Append(table, [desire EXCEPT !.status = "active"])]

\* UPDATE desires SET current_value, priority, weight WHERE id = ?
update_desire(table, desire) ==
    [i \in 1..Len(table) |->
        IF table[i].id = desire.id
        THEN [table[i] EXCEPT !.current_value = desire.current_value,
                              !.priority = desire.priority,
                              !.weight = desire.weight]
        ELSE table[i]]

RECURSIVE insert_all(_, _)
insert_all(table, rows) ==
    IF rows = <<>> THEN [raised |-> FALSE, table |-> table]
    ELSE LET inserted == insert_desire(table, Head(rows))
         IN IF inserted.raised
            THEN \* the exception leaves the loop; earlier rows stay committed
                 inserted
            ELSE insert_all(inserted.table, Tail(rows))

\* the table after the method, and whether the method raised
init_default_desires(table) ==
    IF get_desires_count(table) = 0
    THEN insert_all(table, default_desires)
    ELSE [raised |-> FALSE, table |-> table]

\* the rows of the given status, in order
RECURSIVE select_rows(_, _)
select_rows(rows, keep) ==
    IF rows = <<>> THEN <<>>
    ELSE IF Head(rows).status = keep
         THEN <<Head(rows)>> \o select_rows(Tail(rows), keep)
         ELSE select_rows(Tail(rows), keep)

\* ORDER BY priority DESC: rows of equal priority come in scan (rowid) order
order_by_priority_desc(rows) ==
    LET n == Len(rows)
        rank(i) == Cardinality({j \in 1..n : rows[j].priority > rows[i].priority})
                 + Cardinality({j \in 1..(i-1) : rows[j].priority = rows[i].priority})
                 + 1
    IN [r \in 1..n |-> rows[CHOOSE i \in 1..n : rank(i) = r]]

\* the WHERE clause left out
get_all_desires_any_status(table) == order_by_priority_desc(table)

\* SELECT * FROM desires WHERE status = 'active' ORDER BY priority DESC
get_all_desires(table) == order_by_priority_desc(select_rows(table, "active"))

(***************************************************************************)
(* update_desires_from_beliefs.                                            *)
(***************************************************************************)
\* the upper clamp left out
performance_value_unclamped(current, beliefs_count) ==
    IF beliefs_count > 0
    THEN current + Min(V(5), (beliefs_count * VScale) \div 10)
    ELSE current

\* the cap of 5.0 on the improvement left out
performance_value_uncapped(current, beliefs_count) ==
    IF beliefs_count > 0
    THEN Min(V(100), current + (beliefs_count * VScale) \div 10)
    ELSE current

\* type performance: min(100.0, current + min(5.0, beliefs_count * 0.1))
performance_value(current, beliefs_count) ==
    IF beliefs_count > 0
    THEN Min(V(100), current + Min(V(5), (beliefs_count * VScale) \div 10))
    ELSE current

\* the financial value clamped as the two other types are
financial_value_clamped(current, new_beliefs) ==
    IF new_beliefs > 0 THEN Min(V(100), current + new_beliefs * V(10)) ELSE current

\* type financial: current + new_beliefs * 10.0
financial_value(current, new_beliefs) ==
    IF new_beliefs > 0 THEN current + new_beliefs * V(10) ELSE current

\* the two branches exchanged
quality_value_swapped(current, errors) ==
    IF errors = 0
    THEN Max(V(0), current - V(2))
    ELSE Min(V(100), current + V(1))

\* the penalty taken once per error
quality_value_per_error(current, errors) ==
    IF errors = 0
    THEN Min(V(100), current + V(1))
    ELSE Max(V(0), current - errors * V(2))

\* type quality: min(100.0, current + 1.0) or max(0.0, current - 2.0)
quality_value(current, errors) ==
    IF errors = 0
    THEN Min(V(100), current + V(1))
    ELSE Max(V(0), current - V(2))

\* a type without a rule treated as performance
updated_current_value_untyped(desire, context) ==
    CASE desire.type = "financial" ->
            financial_value(desire.current_value, context.new_beliefs)
      [] desire.type = "quality" ->
            quality_value(desire.current_value, context.errors)
      [] OTHER ->
            performance_value(desire.current_value, context.beliefs_processed)

\* the if / elif chain on desire["type"]; no branch for any other type
updated_current_value(desire, context) ==
    CASE desire.type = "performance" ->
            performance_value(desire.current_value, context.beliefs_processed)
      [] desire.type = "financial" ->
            financial_value(desire.current_value, context.new_beliefs)
      [] desire.type = "quality" ->
            quality_value(desire.current_value, context.errors)
      [] OTHER -> desire.current_value

\* the clamp to 1.0 left out
updated_priority_unclamped(priority, target_value, current_value) ==
    LET gap == Abs(target_value - current_value)
        max_gap == Max(V(1), target_value)
        urgency_tenth == (gap * (Scale \div 10)) \div max_gap
    IN priority + urgency_tenth

\* the stored priority replaced by the urgency instead of raised by it
updated_priority_replaced(priority, target_value, current_value) ==
    LET gap == Abs(target_value - current_value)
        max_gap == Max(V(1), target_value)
        urgency_tenth == (gap * (Scale \div 10)) \div max_gap
    IN Min(Scale, urgency_tenth)

\* min(1.0, priority + urgency * 0.1), urgency = gap / max(1.0, target_value)
updated_priority(priority, target_value, current_value) ==
    LET gap == Abs(target_value - current_value)
        max_gap == Max(V(1), target_value)
        urgency_tenth == (gap * (Scale \div 10)) \div max_gap
    IN Min(Scale, priority + urgency_tenth)

updated_desire(desire, context) ==
    LET current == updated_current_value(desire, context)
    IN [desire EXCEPT
          !.current_value = current,
          !.priority = updated_priority(desire.priority, desire.target_value, current)]

\* the list the method returns
update_desires_from_beliefs(rows, context) ==
    [i \in 1..Len(rows) |-> updated_desire(rows[i], context)]

\* the table after the method's update_desire calls
RECURSIVE update_all(_, _)
update_all(table, rows) ==
    IF rows = <<>> THEN table
    ELSE update_all(update_desire(table, Head(rows)), Tail(rows))

(***************************************************************************)
(* run_lightweight_optimization.                                           *)
(***************************************************************************)
\* the gap normalised by the target alone, as the urgency is
total_score_by_target(desire) ==
    LET gap == Abs(desire.target_value - desire.current_value)
        max_value == Max(V(1), Abs(desire.target_value))
        gap_score == (gap * Scale) \div max_value
    IN desire.priority * 4 + gap_score * 4
       + desire.weight * 2 * (Scale \div VScale)

\* priority * 0.4 + gap_score * 0.4 + weight * 0.2, in 1/SScale
total_score(desire) ==
    LET gap == Abs(desire.target_value - desire.current_value)
        max_value == Max(V(1), Max(Abs(desire.target_value),
                                   Abs(desire.current_value)))
        gap_score == (gap * Scale) \div max_value
    IN desire.priority * 4 + gap_score * 4
       + desire.weight * 2 * (Scale \div VScale)

score_desires(rows) ==
    [i \in 1..Len(rows) |-> [desire |-> rows[i], score |-> total_score(rows[i])]]

\* reverse = True left out: ascending
sort_by_score_ascending(items) ==
    LET n == Len(items)
        rank(i) == Cardinality({j \in 1..n : items[j].score < items[i].score})
                 + Cardinality({j \in 1..(i-1) : items[j].score = items[i].score})
                 + 1
    IN [r \in 1..n |-> items[CHOOSE i \in 1..n : rank(i) = r]]

\* an ascending sort followed by list.reverse(): equal keys come out reversed
sort_by_score_then_reverse(items) ==
    LET n == Len(items)
        rank(i) == Cardinality({j \in 1..n : items[j].score > items[i].score})
                 + Cardinality({j \in (i+1)..n : items[j].score = items[i].score})
                 + 1
    IN [r \in 1..n |-> items[CHOOSE i \in 1..n : rank(i) = r]]

\* list.sort(key = score, reverse = True): descending, equal keys keep their order
sort_by_score_reverse(items) ==
    LET n == Len(items)
        rank(i) == Cardinality({j \in 1..n : items[j].score > items[i].score})
                 + Cardinality({j \in 1..(i-1) : items[j].score = items[i].score})
                 + 1
    IN [r \in 1..n |-> items[CHOOSE i \in 1..n : rank(i) = r]]

run_lightweight_optimization(rows) ==
    LET scored_desires == sort_by_score_reverse(score_desires(rows))
    IN [prioritized_desires |->
            [i \in 1..Len(scored_desires) |-> scored_desires[i].desire],
        method |-> "lightweight_weighted_scoring"]

\* list[:5]
first_five(list) == SubSeq(list, 1, Min(5, Len(list)))

(***************************************************************************)
(* Cycle summaries given to optimize_desires.                              *)
(***************************************************************************)
BeliefsProcessedSet == {0, 10, 60}
NewBeliefsSet == {0, 2}
ErrorsSet == {0, 1, 3}

BeliefContexts ==
    [beliefs_processed : BeliefsProcessedSet, new_beliefs : NewBeliefsSet,
     errors : ErrorsSet]

(***************************************************************************)
(* optimize_desires.                                                       *)
(***************************************************************************)
\* optimize_desires, from a table: the table it leaves, the row it saves and
\* the result it returns
optimized(table, context) ==
    LET current_desires == get_all_desires(table)
        updated_desires == update_desires_from_beliefs(current_desires, context)
        optimization_result == run_lightweight_optimization(updated_desires)
    IN [table |-> update_all(table, updated_desires),
        saved |-> [desires_snapshot |-> updated_desires,
                   optimization_result |-> optimization_result,
                   method |-> optimization_result.method],
        result |-> [desires_processed |-> Len(updated_desires),
                    top_desires |->
                        first_five(optimization_result.prioritized_desires),
                    count |-> Len(updated_desires)]]

optimize_desires(context) ==
    /\ Len(desire_optimizations) < MaxCycles
    /\ \E done \in {optimized(desires, context)} :
          /\ desires' = done.table
          /\ desire_optimizations' = Append(desire_optimizations, done.saved)
          /\ desire_context' = done.result
    /\ belief_context' = context

DesireInit ==
    /\ desires \in {init_default_desires(r).table : r \in Registries}
    /\ desire_optimizations = <<>>
    /\ belief_context = [beliefs_processed |-> 0, new_beliefs |-> 0, errors |-> 0]
    /\ desire_context = [desires_processed |-> 0, top_desires |-> <<>>, count |-> 0]

(***************************************************************************)
(* The Belief System (BeliefSystemLite) and its three sources.             *)
(***************************************************************************)
\* setup_data_sources: the sources, in the order they are visited
data_sources == << "local_sensors", "api_endpoints", "file_system" >>

\* the items a probe can deliver: dictionaries of a type and its data
Items == {[type |-> "reading", data |-> d] : d \in {"a", "b"}}

NoItem == [type |-> "none", data |-> "none"]

\* what the command, the request or the disk query of a source does: it
\* delivers an item, or it fails (a return code, a status other than 200, an
\* exception, a timeout)
Probes ==
    {[status |-> "ok", item |-> i] : i \in Items}
    \cup {[status |-> "failed", item |-> NoItem]}

\* collect_data of the three sources: a failure of the probe is caught or
\* skipped inside and the data collected so far, nothing, is returned
collect_data(probe) ==
    IF probe.status = "ok" THEN << probe.item >> ELSE << >>

\* whether collect_data lets an exception out to its caller: each of the
\* three sources wraps its probe in try / except Exception and returns data
collect_data_raises(probe) == FALSE

\* json.dumps(item, sort_keys=True): the keys and their values, keys in order
content_str(item) == << "data", item.data, "type", item.type >>

\* hashlib.md5(f"{source_name}_{content_str}"): one id per source and content
belief_id(source_name, content) == << source_name, content >>

\* SELECT id FROM beliefs WHERE id = ?
existing(table, id) == \E i \in 1..Len(table) : table[i].id = id

\* the check of the existing row left out
never_existing(table, id) == FALSE

\* process_source_data: "if not existing"
not_existing(table, id) == ~ existing(table, id)

\* INSERT INTO beliefs: id is the primary key, a second row of an id raises
insert_belief(table, belief) ==
    IF existing(table, belief.id)
    THEN [raised |-> TRUE, table |-> table]
    ELSE [raised |-> FALSE, table |-> Append(table, belief)]

\* process_source_data, from a table: the table it leaves and its counters
RECURSIVE process_items(_, _, _, _, _, _)
process_items(table, source_name, data, now, processed_count, new_count) ==
    IF data = <<>>
    THEN [table |-> table, processed |-> processed_count, new |-> new_count]
    ELSE LET content == content_str(Head(data))
             id == belief_id(source_name, content)
         IN IF not_existing(table, id)
            THEN LET inserted ==
                        insert_belief(table,
                            [id |-> id, content |-> content,
                             source |-> source_name, confidence |-> 8,
                             timestamp |-> now])
                 IN IF inserted.raised
                    THEN \* except Exception: the item is not counted
                         process_items(table, source_name, Tail(data), now,
                                       processed_count, new_count)
                    ELSE process_items(inserted.table, source_name, Tail(data),
                                       now, processed_count + 1, new_count + 1)
            ELSE process_items(table, source_name, Tail(data), now,
                               processed_count + 1, new_count)

process_source_data_from(table, source_name, data, now) ==
    process_items(table, source_name, data, now, 0, 0)

\* SELECT COUNT(*) FROM beliefs
get_beliefs_count(table) == Len(table)

\* a source counted as processed only when it delivered data
RECURSIVE collect_sources_with_data(_, _, _, _, _)
collect_sources_with_data(k, table, results, probe_of, now) ==
    IF k > Len(data_sources)
    THEN [table |-> table, results |-> results]
    ELSE LET source == data_sources[k]
             data == collect_data(probe_of[source])
         IN IF data # <<>>
            THEN LET processed ==
                        process_source_data_from(table, source, data, now)
                 IN collect_sources_with_data(k + 1, processed.table,
                       [results EXCEPT
                          !.beliefs_processed = @ + processed.processed,
                          !.new_beliefs = @ + processed.new,
                          !.sources_processed = @ + 1],
                       probe_of, now)
            ELSE collect_sources_with_data(k + 1, table, results, probe_of, now)

\* update_beliefs: the loop over the sources, from source k on
RECURSIVE collect_sources(_, _, _, _, _)
collect_sources(k, table, results, probe_of, now) ==
    IF k > Len(data_sources)
    THEN [table |-> table, results |-> results]
    ELSE LET source == data_sources[k]
             data == collect_data(probe_of[source])
         IN IF collect_data_raises(probe_of[source])
            THEN \* except Exception: results["errors"] += 1
                 collect_sources(k + 1, table,
                       [results EXCEPT !.errors = @ + 1], probe_of, now)
            ELSE IF data # <<>>
            THEN LET processed ==
                        process_source_data_from(table, source, data, now)
                 IN collect_sources(k + 1, processed.table,
                       [results EXCEPT
                          !.beliefs_processed = @ + processed.processed,
                          !.new_beliefs = @ + processed.new,
                          !.sources_processed = @ + 1],
                       probe_of, now)
            ELSE collect_sources(k + 1, table,
                       [results EXCEPT !.sources_processed = @ + 1],
                       probe_of, now)

EmptyResults ==
    [beliefs_processed |-> 0, new_beliefs |-> 0, errors |-> 0,
     sources_processed |-> 0, count |-> 0]

update_beliefs(probe_of) ==
    /\ belief_clock < MaxBeliefCalls
    /\ \E done \in {collect_sources(1, beliefs, EmptyResults, probe_of,
                                    belief_clock + 1)} :
          /\ beliefs' = done.table
          /\ belief_results' =
                [done.results EXCEPT !.count = get_beliefs_count(done.table)]
    /\ probes' = probe_of
    /\ belief_clock' = belief_clock + 1
    /\ belief_op' = "update_beliefs"
    /\ UNCHANGED <<source_call, source_result>>

\* the lists of at most MaxItems items
RECURSIVE ItemLists(_)
ItemLists(n) ==
    IF n = 0 THEN { <<>> }
    ELSE ItemLists(n - 1)
         \cup {Append(l, i) : l \in {m \in ItemLists(n - 1) : Len(m) = n - 1},
                              i \in Items}

process_source_data(source_name, data) ==
    /\ belief_clock < MaxBeliefCalls
    /\ \E done \in {process_source_data_from(beliefs, source_name, data,
                                             belief_clock + 1)} :
          /\ beliefs' = done.table
          /\ source_result' = [processed |-> done.processed, new |-> done.new]
    /\ source_call' = [source_name |-> source_name, data |-> data]
    /\ belief_clock' = belief_clock + 1
    /\ belief_op' = "process_source_data"
    /\ UNCHANGED <<probes, belief_results>>

BeliefInit ==
    /\ beliefs = <<>>
    /\ belief_clock = 0
    /\ probes = [s \in {data_sources[k] : k \in 1..Len(data_sources)} |->
                    [status |-> "failed", item |-> NoItem]]
    /\ belief_results = EmptyResults
    /\ source_call = [source_name |-> "local_sensors", data |-> <<>>]
    /\ source_result = [processed |-> 0, new |-> 0]
    /\ belief_op = "none"

(***************************************************************************)
(* The Intention System (IntentionSystemLite).                             *)
(***************************************************************************)
\* __init__: the keys of available_actions
available_actions == {"send_notification", "simulate_action"}

\* the action types a mapping can name; "" stands for None
ActionTypes == {"", "send_notification", "simulate_action", "send_email"}

\* what the termux-notification command does
Outcomes == {"sent", "command_not_found", "command_failed"}

\* f"{priority:.2f}": the priority in hundredths, rounded
format_priority(priority) == (priority * 100 + Scale \div 2) \div Scale

\* desire_context.get("top_desires", [])
get_top_desires(context) ==
    IF "top_desires" \in DOMAIN context THEN context.top_desires ELSE <<>>

\* the last desire taken instead of the first
last_desire(top_desires) == top_desires[Len(top_desires)]

\* top_desires[0]
selected_desire(top_desires) == top_desires[1]

select_action_for_desire(desire) ==
    [action_type |-> "send_notification",
     params |-> [title |-> desire.name,
                 content |-> format_priority(desire.priority)]]

\* a failure of the command reported as a success
send_notification_always_success(params, outcome) ==
    [status |-> "success", detail |-> "Notification sent."]

send_notification(params, outcome) ==
    CASE outcome = "sent" -> [status |-> "success", detail |-> "Notification sent."]
      [] outcome = "command_not_found" ->
            [status |-> "failed", detail |-> "command not found"]
      [] OTHER -> [status |-> "failed", detail |-> "error"]

simulate_action(params) == [status |-> "simulated_success", detail |-> ""]

\* the test of the action type left out
always_registered(action_type) == TRUE

\* "if action_type and action_type in self.available_actions"
action_registered(action_type) ==
    action_type # "" /\ action_type \in available_actions

\* self.available_actions[action_type](params)
action_func(action_type, params, outcome) ==
    IF action_type = "send_notification"
    THEN send_notification(params, outcome)
    ELSE simulate_action(params)

\* INSERT INTO action_executions, one row per result
log_execution_results(table, results) ==
    table \o [i \in 1..Len(results) |->
                [action_type |-> results[i].action_type,
                 status |-> results[i].status]]

\* 1 if result_summary["status"] != "no_action_selected" else 0
actions_taken(result_summary) ==
    IF result_summary.status # "no_action_selected" THEN 1 ELSE 0

\* execute_intentions from the selected action on: the rows and calls it
\* leaves and its result summary
dispatched(table, calls, action_type, params, outcome) ==
    IF action_registered(action_type)
    THEN LET result == action_func(action_type, params, outcome)
             result_summary == [action_type |-> action_type,
                                status |-> result.status]
         IN [table |-> log_execution_results(table, << result_summary >>),
             calls |-> Append(calls, [action_type |-> action_type,
                                      params |-> params]),
             result_summary |-> result_summary]
    ELSE [table |-> table, calls |-> calls,
          result_summary |-> [action_type |-> "none",
                              status |-> "no_action_selected"]]

execute_intentions(context, outcome) ==
    /\ intention_calls < MaxExecutions
    /\ IF get_top_desires(context) = <<>>
       THEN /\ intention_result' = [actions |-> 0, results |-> <<>>]
            /\ UNCHANGED <<action_executions, invocations>>
       ELSE \E selected \in
                {select_action_for_desire(
                    selected_desire(get_top_desires(context)))} :
            \E done \in {dispatched(action_executions, invocations,
                                    selected.action_type, selected.params,
                                    outcome)} :
               /\ action_executions' = done.table
               /\ invocations' = done.calls
               /\ intention_result' =
                     [actions |-> actions_taken(done.result_summary),
                      results |-> << done.result_summary >>]
    /\ intention_context' = context
    /\ intention_calls' = intention_calls + 1

\* the cycle summaries of the desire contexts given to execute_intentions
ScenarioContexts ==
    {[beliefs_processed |-> 10, new_beliefs |-> 2, errors |-> 0],
     [beliefs_processed |-> 10, new_beliefs |-> 2, errors |-> 3]}

\* what optimize_desires can return: a result, or an error
DesireContexts ==
    {optimized(init_default_desires(r).table, c).result :
        r \in Registries, c \in ScenarioContexts}
    \cup {[desires_processed |-> 0, top_desires |-> <<>>, count |-> 0]}
    \cup {[error |-> "database is locked", count |-> 0]}

IntentionInit ==
    /\ action_executions = <<>>
    /\ invocations = <<>>
    /\ intention_context = [desires_processed |-> 0, top_desires |-> <<>>, count |-> 0]
    /\ intention_result = [actions |-> 0, results |-> <<>>]
    /\ intention_calls = 0

(***************************************************************************)
(* The construction of the Desire System on an existing database file.     *)
(***************************************************************************)
\* a goal that is not one of the defaults
custom_desire ==
    Desire("custom_goal", "Custom Goal", "learning", V(10), V(4), 500, 5, "active")

RowStatus == {"active", "inactive"}

\* the tables over the rows of a pool: each row absent or stored with one
\* status, in the order of the pool
RECURSIVE TablesOver(_)
TablesOver(pool) ==
    IF pool = <<>> THEN { <<>> }
    ELSE LET rest == TablesOver(Tail(pool))
         IN rest \cup {<<[Head(pool) EXCEPT !.status = st]>> \o t :
                          st \in RowStatus, t \in rest}

\* the registries a database file can hold when the agent is started
SeedRegistries == TablesOver(default_desires \o <<custom_desire>>)

\* DesireSystemLite.__init__: init_schema keeps an existing table, then
\* init_default_desires runs
DesireSystemLite_init ==
    /\ seed_calls < MaxSeedCalls
    /\ \E seeded \in {init_default_desires(desires)} :
          /\ desires' = seeded.table
          /\ seed_raised' = seeded.raised
    /\ seed_calls' = seed_calls + 1
    /\ UNCHANGED <<desire_optimizations, belief_context, desire_context>>

SeedIdle ==
    /\ seed_calls = 0
    /\ seed_raised = FALSE

SeedInit ==
    /\ desires \in SeedRegistries
    /\ desire_optimizations = <<>>
    /\ belief_context = [beliefs_processed |-> 0, new_beliefs |-> 0, errors |-> 0]
    /\ desire_context = [desires_processed |-> 0, top_desires |-> <<>>, count |-> 0]
    /\ SeedIdle

(***************************************************************************)
(* The action planner of the workflow (QuantumIntentionPlanner), on its    *)
(* classical path: use_quantum is False.  cost and impact are in tenths.   *)
(***************************************************************************)
Action(id, cost, impact, duration) ==
    [id |-> id, cost |-> cost, impact |-> impact, duration |-> duration]

\* _initialize_action_templates
action_templates ==
    [enhance_performance |-> << Action("optimize_db", 4, 8, 2) >>,
     increase_stability |-> << Action("add_monitoring", 3, 7, 3) >>,
     explore_new_data |-> << Action("run_scraper", 2, 6, 1) >>]

\* the ids a desire of the desire file can have
PlanDesireIds == DOMAIN action_templates \cup {"reduce_cost"}

\* solution.selected_desires of the desire file: at most n desires
RECURSIVE SelectedDesires(_)
SelectedDesires(n) ==
    IF n = 0 THEN { <<>> }
    ELSE SelectedDesires(n - 1)
         \cup {Append(l, [id |-> d]) :
                  l \in {m \in SelectedDesires(n - 1) : Len(m) = n - 1},
                  d \in PlanDesireIds}

\* the templates of the selected desires that have one, in order
RECURSIVE candidate_actions(_)
candidate_actions(selected_desires) ==
    IF selected_desires = <<>> THEN <<>>
    ELSE (IF Head(selected_desires).id \in DOMAIN action_templates
          THEN action_templates[Head(selected_desires).id]
          ELSE <<>>)
         \o candidate_actions(Tail(selected_desires))

\* [action for action in actions if action['impact'] > action['cost']]
RECURSIVE classical_optimize_plan(_)
classical_optimize_plan(actions) ==
    IF actions = <<>> THEN <<>>
    ELSE (IF Head(actions).impact > Head(actions).cost
          THEN << Head(actions) >>
          ELSE <<>>)
         \o classical_optimize_plan(Tail(actions))

RECURSIVE sum_of(_, _)
sum_of(actions, field) ==
    IF actions = <<>> THEN 0
    ELSE Head(actions)[field] + sum_of(Tail(actions), field)

\* _create_schedule: start_time and end_time are stored as isoformat
\* strings, and total_duration subtracts two of them when the schedule is
\* not empty: TypeError
create_schedule_raises(actions) == actions # <<>>

create_schedule(actions) ==
    [actions |-> actions,
     metrics |-> [total_cost |-> sum_of(actions, "cost"),
                  total_impact |-> sum_of(actions, "impact")]]

NoPlan == [raised |-> FALSE, plan |-> [actions |-> <<>>, metrics |-> <<>>]]

generate_action_plan(selected_desires) ==
    /\ plan_calls < MaxPlanCalls
    /\ plan_desires' = selected_desires
    /\ plan_calls' = plan_calls + 1
    /\ IF selected_desires = <<>> \/ candidate_actions(selected_desires) = <<>>
       THEN /\ optimized_plan' = <<>>
            /\ plan_results' = NoPlan
       ELSE \E selection \in
                 {classical_optimize_plan(candidate_actions(selected_desires))} :
               /\ optimized_plan' = selection
               /\ plan_results' =
                     IF create_schedule_raises(selection)
                     THEN [raised |-> TRUE, plan |-> NoPlan.plan]
                     ELSE [raised |-> FALSE, plan |-> create_schedule(selection)]

PlanInit ==
    /\ plan_desires = <<>>
    /\ optimized_plan = <<>>
    /\ plan_results = NoPlan
    /\ plan_calls = 0

(***************************************************************************)
(* The desire optimizer of the workflow (QuantumDesireOptimizer), on its   *)
(* classical path.  utility and cost are in ten-thousandths (SScale), the  *)
(* optimization score of the belief data in thousandths (Scale).           *)
(***************************************************************************)
Candidate(id, utility, cost) == [id |-> id, utility |-> utility, cost |-> cost]

\* the optimization_score of the belief file: an entropy score in (0, 1] or
\* a mean of features, which is any number
OptimizationScores == {-500, 0, 250, 375, 400, 428, 429, 500, 1000, 1500}

\* the belief data loaded: with the score, or without its key
BeliefData ==
    {[optimization_score |-> s] : s \in OptimizationScores}
    \cup {[timestamp |-> "2024-01-01T00:00:00"]}

\* Q[i, i] = -utility + cost on a matrix of zeros
qubo_matrix_of(candidates) ==
    [i \in 1..Len(candidates) |->
        [j \in 1..Len(candidates) |->
            IF i = j THEN - candidates[i].utility + candidates[i].cost ELSE 0]]

formulate_optimization_problem(belief_data) ==
    LET opt_score == IF "optimization_score" \in DOMAIN belief_data
                     THEN belief_data.optimization_score
                     ELSE Scale \div 2
        candidates ==
            << Candidate("enhance_performance", 8 * opt_score, 3000),
               Candidate("increase_stability", 7 * (Scale - opt_score), 4000),
               Candidate("explore_new_data", 6000, 5000) >>
    IN [desires |-> candidates, qubo_matrix |-> qubo_matrix_of(candidates)]

\* problems of other candidates, given to the solver directly
CandidatePool ==
    { Candidate("a", 9000, 1000), Candidate("b", 2000, 2000),
      Candidate("c", -1000, 0), Candidate("d", 1000, 6000) }

CandidateLists ==
    { <<>> } \cup {<< c >> : c \in CandidatePool}
             \cup {<< c, d >> : c \in CandidatePool, d \in CandidatePool}

Problems ==
    {formulate_optimization_problem(b) : b \in BeliefData}
    \cup {[desires |-> l, qubo_matrix |-> qubo_matrix_of(l)] : l \in CandidateLists}

\* a candidate that costs what it yields selected too
worth_selecting_or_even(candidate) == candidate.utility >= candidate.cost

\* d['utility'] > d['cost']
worth_selecting(candidate) == candidate.utility > candidate.cost

\* [d for d in desires if d['utility'] > d['cost']]
RECURSIVE select_candidates(_)
select_candidates(candidates) ==
    IF candidates = <<>> THEN <<>>
    ELSE IF worth_selecting(Head(candidates))
         THEN << Head(candidates) >> \o select_candidates(Tail(candidates))
         ELSE select_candidates(Tail(candidates))

\* sum(d['utility'] - d['cost'] for d in selected_desires)
RECURSIVE net_value_of(_)
net_value_of(candidates) ==
    IF candidates = <<>> THEN 0
    ELSE Head(candidates).utility - Head(candidates).cost
         + net_value_of(Tail(candidates))

solve_classical_optimization(problem) ==
    LET chosen == select_candidates(problem.desires)
    IN [optimization_type |-> "classical_fallback",
        solution |-> [selected_desires |-> chosen,
                      net_value |-> net_value_of(chosen),
                      total_selected |-> Len(chosen)]]

\* solve_qaoa_optimization with use_quantum false
solve_qaoa_optimization(problem) ==
    /\ Len(quantum_results) < MaxSolveCalls
    /\ quantum_problem' = problem
    /\ quantum_results' = Append(quantum_results, solve_classical_optimization(problem))

QuantumInit ==
    /\ quantum_problem = [desires |-> <<>>, qubo_matrix |-> <<>>]
    /\ quantum_results = <<>>

(***************************************************************************)
(* The agent (TermuxBDIAgent): start, run_bdi_cycle and signal_handler.    *)
(* The main thread moves from one pc to the next; a signal handler runs    *)
(* between two of its steps.  Times are in seconds; the time the phases of *)
(* a cycle take is added to the clock before the trigger test.             *)
(***************************************************************************)
cycle_interval == 60
trigger_age == 600
trigger_period == 300

\* the summary of every source delivering and of every source failing
AgentProbes ==
    {[s \in {data_sources[k] : k \in 1..Len(data_sources)} |-> probe] :
        probe \in {[status |-> "ok", item |-> [type |-> "reading", data |-> "a"]],
                   [status |-> "failed", item |-> NoItem]}}

\* the goal, in priority order, at which the try body of optimize_desires
\* raises (a NULL current_value or priority: TypeError); 0 for no exception
FailingGoals == {0, 1}

AgentOutcomes == {"sent", "command_failed"}

\* the error result that still lists a goal
optimize_error_result_listing ==
    [error |-> "TypeError", count |-> 1, top_desires |-> << default_desires[1] >>]

\* except Exception as e: return {"error": str(e), "count": 0}
optimize_error_result == [error |-> "TypeError", count |-> 0]

\* optimize_desires when its try body raises at goal k: the goals before it
\* are updated and stored, nothing is ranked or saved
optimize_desires_raising(context, k) ==
    /\ k \in 1..Len(get_all_desires(desires))
    /\ \E updated \in {update_desires_from_beliefs(
                           SubSeq(get_all_desires(desires), 1, k - 1), context)} :
          desires' = update_all(desires, updated)
    /\ desire_context' = optimize_error_result
    /\ belief_context' = context
    /\ UNCHANGED desire_optimizations

\* the time phases 1 to 4 of a cycle take together: a few seconds, or more
\* than four minutes on a device that was suspended
CycleDurations == {5, 250}

\* what requests.post does: a response with a status code, or an exception
Response(status_code, exception) ==
    [status_code |-> status_code, exception |-> exception]

NoRequest == Response(0, "not_sent")

StatusResponses ==
    {Response(200, "none"), Response(500, "none"),
     Response(0, "ConnectionError"), Response(0, "Timeout")}

TriggerResponses ==
    {Response(204, "none"), Response(404, "none"),
     Response(0, "ConnectionError"), Response(0, "Timeout")}

\* a handler for connection errors only
is_connection_error(response) == response.exception = "ConnectionError"

\* except requests.exceptions.RequestException: ConnectionError and Timeout
\* are subclasses of it
is_request_exception(response) ==
    response.exception \in {"ConnectionError", "Timeout"}

\* whether the exception of the request leaves the method
request_raises(response) ==
    response.exception \notin {"none", "not_sent"}
    /\ ~ is_request_exception(response)

\* the responses update_vercel_status can meet: no request without a URL
vercel_responses == IF vercel_url = "" THEN {NoRequest} ELSE StatusResponses

\* the responses trigger_github_workflow can meet: no request without a
\* repository (GITHUB_TOKEN is set when the agent runs)
github_responses ==
    IF github_repository = "" THEN {NoRequest} ELSE TriggerResponses

\* update_vercel_status: the reports posted after this one; nothing is
\* posted without a URL, and the caller ignores what the call returns
update_vercel_status(posted, component, status) ==
    IF vercel_url = "" THEN posted
    ELSE Append(posted, [component |-> component, status |-> status])

\* what update_vercel_status returns: True for status code 200
update_vercel_status_returns(response) ==
    vercel_url # "" /\ response.exception = "none" /\ response.status_code = 200

\* every response taken as a success
trigger_github_workflow_returns_any_status(response) ==
    github_repository # "" /\ response.exception = "none"

\* what trigger_github_workflow returns: True for status code 204
trigger_github_workflow_returns(response) ==
    github_repository # "" /\ response.exception = "none"
    /\ response.status_code = 204

\* a call to the coordinator, as made
RemoteCall(name, response, returned) ==
    [name |-> name, response |-> response, returned |-> returned]

status_call(response) ==
    RemoteCall("update_vercel_status", response,
               update_vercel_status_returns(response))

trigger_call(response) ==
    RemoteCall("trigger_github_workflow", response,
               trigger_github_workflow_returns(response))

\* the handler ending the cycle in flight
signal_handler_preemptive ==
    /\ ~ signalled
    /\ pc \notin {"stopped", "crashed"}
    /\ \E response \in vercel_responses :
          /\ statuses' = update_vercel_status(statuses, "termux_agent", "offline")
          /\ remote_calls' = << status_call(response) >>
          /\ IF request_raises(response)
             THEN pc' = "crashed" /\ UNCHANGED running
             ELSE pc' = "close" /\ running' = FALSE
    /\ signalled' = TRUE
    /\ signal_at' = [pc |-> pc, cycle_count |-> cycle_count]
    /\ UNCHANGED <<cycle_count, dispatches, store_closed, wall_clock,
                   cycle_started, last_github_trigger, vercel_url,
                   github_repository, optimize_raised, command_outcome>>
    /\ UNCHANGED <<dvars, bvars, ivars>>

\* signal_handler, for SIGINT and SIGTERM; the first signal is modelled
signal_handler ==
    /\ ~ signalled
    /\ pc \notin {"stopped", "crashed"}
    /\ \E response \in vercel_responses :
          /\ statuses' = update_vercel_status(statuses, "termux_agent", "offline")
          /\ remote_calls' = << status_call(response) >>
          /\ IF request_raises(response)
             THEN pc' = "crashed" /\ UNCHANGED running
             ELSE running' = FALSE /\ UNCHANGED pc
    /\ signalled' = TRUE
    /\ signal_at' = [pc |-> pc, cycle_count |-> cycle_count]
    /\ UNCHANGED <<cycle_count, dispatches, store_closed, wall_clock,
                   cycle_started, last_github_trigger, vercel_url,
                   github_repository, optimize_raised, command_outcome>>
    /\ UNCHANGED <<dvars, bvars, ivars>>

\* what the steps of the main thread leave alone
UNCHANGED_signal == UNCHANGED <<running, signalled, signal_at>>
UNCHANGED_config == UNCHANGED <<vercel_url, github_repository>>

\* start: "while self.running" found true
enter_cycle ==
    /\ pc = "while"
    /\ running
    /\ cycle_count < MaxAgentCycles
    /\ pc' = "run_bdi_cycle"
    /\ UNCHANGED_signal /\ UNCHANGED_config
    /\ UNCHANGED cycle_started
    /\ remote_calls' = << >>
    /\ UNCHANGED <<cycle_count, statuses, dispatches, store_closed, wall_clock,
                   last_github_trigger, optimize_raised, command_outcome>>
    /\ UNCHANGED <<dvars, bvars, ivars>>

\* start: "while self.running" found false
leave_loop ==
    /\ pc = "while"
    /\ ~ running
    /\ pc' = "close"
    /\ UNCHANGED_signal /\ UNCHANGED_config
    /\ UNCHANGED cycle_started
    /\ remote_calls' = << >>
    /\ UNCHANGED <<cycle_count, statuses, dispatches, store_closed, wall_clock,
                   last_github_trigger, optimize_raised, command_outcome>>
    /\ UNCHANGED <<dvars, bvars, ivars>>

\* run_bdi_cycle: cycle_count += 1, then 1. BELIEF
belief_phase ==
    /\ pc = "run_bdi_cycle"
    /\ cycle_count' = cycle_count + 1
    /\ cycle_started' = wall_clock
    /\ \E probe_of \in AgentProbes : update_beliefs(probe_of)
    /\ pc' = "desire"
    /\ optimize_raised' = FALSE
    /\ command_outcome' = "none"
    /\ UNCHANGED_signal /\ UNCHANGED_config
    /\ remote_calls' = << >>
    /\ UNCHANGED <<statuses, dispatches, store_closed, wall_clock,
                   last_github_trigger>>
    /\ UNCHANGED <<dvars, ivars>>

\* run_bdi_cycle: 2. DESIRE
desire_phase ==
    /\ pc = "desire"
    /\ \E k \in FailingGoals :
          IF k = 0
          THEN optimize_desires(belief_results) /\ optimize_raised' = FALSE
          ELSE optimize_desires_raising(belief_results, k) /\ optimize_raised' = TRUE
    /\ pc' = "intention"
    /\ UNCHANGED_signal /\ UNCHANGED_config
    /\ UNCHANGED cycle_started
    /\ remote_calls' = << >>
    /\ UNCHANGED <<cycle_count, statuses, dispatches, store_closed, wall_clock,
                   last_github_trigger, command_outcome>>
    /\ UNCHANGED <<bvars, ivars>>

\* run_bdi_cycle: 3. INTENTION
intention_phase ==
    /\ pc = "intention"
    /\ \E outcome \in AgentOutcomes :
          /\ execute_intentions(desire_context, outcome)
          /\ command_outcome' =
                IF get_top_desires(desire_context) = <<>> THEN "none" ELSE outcome
    /\ pc' = "report"
    /\ UNCHANGED_signal /\ UNCHANGED_config
    /\ UNCHANGED cycle_started
    /\ remote_calls' = << >>
    /\ UNCHANGED <<cycle_count, statuses, dispatches, store_closed, wall_clock,
                   last_github_trigger, optimize_raised>>
    /\ UNCHANGED <<dvars, bvars>>

\* run_bdi_cycle: 4. the status report, made when phases 1 to 3 have taken
\* their time
report_phase ==
    /\ pc = "report"
    /\ \E elapsed \in CycleDurations : wall_clock' = wall_clock + elapsed
    /\ \E response \in vercel_responses :
          /\ statuses' = update_vercel_status(statuses, "termux_agent", "active")
          /\ remote_calls' = << status_call(response) >>
          /\ pc' = IF request_raises(response) THEN "crashed" ELSE "trigger"
    /\ UNCHANGED_signal /\ UNCHANGED_config
    /\ UNCHANGED <<cycle_count, dispatches, store_closed, cycle_started,
                   last_github_trigger, optimize_raised, command_outcome>>
    /\ UNCHANGED <<dvars, bvars, ivars>>

\* run_bdi_cycle: the workflow trigger, tried when the last one that
\* succeeded is more than five minutes old
trigger_phase ==
    /\ pc = "trigger"
    /\ IF wall_clock - last_github_trigger > trigger_period
       THEN \E response \in github_responses :
               /\ dispatches' =
                     IF github_repository = "" THEN dispatches
                     ELSE Append(dispatches,
                                 [time |-> wall_clock,
                                  accepted |-> trigger_github_workflow_returns(response)])
               /\ IF request_raises(response)
                  THEN /\ remote_calls' = << trigger_call(response) >>
                       /\ pc' = "crashed"
                       /\ UNCHANGED <<last_github_trigger, statuses>>
                  ELSE IF trigger_github_workflow_returns(response)
                  THEN /\ last_github_trigger' = wall_clock
                       /\ \E reported \in vercel_responses :
                             /\ statuses' = update_vercel_status(statuses,
                                                "quantum_processor", "triggered")
                             /\ remote_calls' = << trigger_call(response),
                                                   status_call(reported) >>
                             /\ pc' = IF request_raises(reported)
                                      THEN "crashed" ELSE "sleep"
                  ELSE /\ remote_calls' = << trigger_call(response) >>
                       /\ pc' = "sleep"
                       /\ UNCHANGED <<last_github_trigger, statuses>>
       ELSE /\ remote_calls' = << >>
            /\ pc' = "sleep"
            /\ UNCHANGED <<dispatches, last_github_trigger, statuses>>
    /\ UNCHANGED_signal /\ UNCHANGED_config
    /\ UNCHANGED <<cycle_count, store_closed, wall_clock, cycle_started,
                   optimize_raised, command_outcome>>
    /\ UNCHANGED <<dvars, bvars, ivars>>

\* start: time.sleep(self.cycle_interval)
sleep ==
    /\ pc = "sleep"
    /\ wall_clock' = wall_clock + cycle_interval
    /\ pc' = "while"
    /\ UNCHANGED_signal /\ UNCHANGED_config
    /\ UNCHANGED cycle_started
    /\ remote_calls' = << >>
    /\ UNCHANGED <<cycle_count, statuses, dispatches, store_closed,
                   last_github_trigger, optimize_raised, command_outcome>>
    /\ UNCHANGED <<dvars, bvars, ivars>>

\* start: self.db.close()
close ==
    /\ pc = "close"
    /\ store_closed' = TRUE
    /\ pc' = "stopped"
    /\ UNCHANGED_signal /\ UNCHANGED_config
    /\ UNCHANGED cycle_started
    /\ remote_calls' = << >>
    /\ UNCHANGED <<cycle_count, statuses, dispatches, wall_clock,
                   last_github_trigger, optimize_raised, command_outcome>>
    /\ UNCHANGED <<dvars, bvars, ivars>>

\* execute_intentions when the INSERT of log_execution_results raises
\* (sqlite3.OperationalError: database is locked, disk full): the action
\* function has run, no row is stored, and neither execute_intentions nor
\* run_bdi_cycle nor start has a handler
intention_phase_raises ==
    /\ pc = "intention"
    /\ get_top_desires(desire_context) # <<>>
    /\ \E selected \in {select_action_for_desire(
                            selected_desire(get_top_desires(desire_context)))} :
          invocations' = Append(invocations,
                                [action_type |-> selected.action_type,
                                 params |-> selected.params])
    /\ intention_context' = desire_context
    /\ intention_calls' = intention_calls + 1
    /\ pc' = "crashed"
    /\ UNCHANGED <<action_executions, intention_result>>
    /\ UNCHANGED_signal /\ UNCHANGED_config
    /\ UNCHANGED cycle_started
    /\ remote_calls' = << >>
    /\ UNCHANGED <<cycle_count, statuses, dispatches, store_closed, wall_clock,
                   last_github_trigger, optimize_raised, command_outcome>>
    /\ UNCHANGED <<dvars, bvars>>

NoSignal == [pc |-> "none", cycle_count |-> 0]

\* TermuxBDIAgent.__init__
AgentInit(url, repository) ==
    /\ pc = "while"
    /\ running = TRUE
    /\ cycle_count = 0
    /\ signalled = FALSE
    /\ signal_at = NoSignal
    /\ statuses = <<>>
    /\ dispatches = <<>>
    /\ store_closed = FALSE
    /\ wall_clock = trigger_age
    /\ cycle_started = wall_clock
    /\ remote_calls = << >>
    /\ last_github_trigger = wall_clock - trigger_age
    /\ vercel_url = url
    /\ github_repository = repository
    /\ optimize_raised = FALSE
    /\ command_outcome = "none"

\* config.json
VercelUrls == {"", "https://bdi.example"}
GithubRepositories == {"", "owner/bdi"}

(***************************************************************************)
(* Specifications.                                                         *)
(***************************************************************************)
Init ==
    /\ DesireInit /\ BeliefInit /\ IntentionInit /\ SeedIdle /\ PlanInit
    /\ QuantumInit
    /\ AgentInit("", "")

DesireNext ==
    /\ \E context \in BeliefContexts : optimize_desires(context)
    /\ UNCHANGED <<bvars, ivars, svars, pvars, qvars, avars>>

DesireSpec == Init /\ [][DesireNext]_vars

BeliefNext ==
    \/ /\ \E probe_of \in
             [{data_sources[k] : k \in 1..Len(data_sources)} -> Probes] :
             update_beliefs(probe_of)
       /\ UNCHANGED <<dvars, ivars, svars, pvars, qvars, avars>>
    \/ /\ \E k \in 1..Len(data_sources), data \in ItemLists(MaxItems) :
             process_source_data(data_sources[k], data)
       /\ UNCHANGED <<dvars, ivars, svars, pvars, qvars, avars>>

DefaultInit == Init /\ desires = init_default_desires(<<>>).table

BeliefSpec == DefaultInit /\ [][BeliefNext]_vars

IntentionNext ==
    /\ \E context \in DesireContexts, outcome \in Outcomes :
          execute_intentions(context, outcome)
    /\ UNCHANGED <<dvars, bvars, svars, pvars, qvars, avars>>

IntentionSpec == DefaultInit /\ [][IntentionNext]_vars

SeedNext ==
    /\ DesireSystemLite_init
    /\ UNCHANGED <<bvars, ivars, pvars, qvars, avars>>

\* the database file as found, before the Desire System is constructed
StoredInit ==
    /\ SeedInit /\ BeliefInit /\ IntentionInit /\ PlanInit /\ QuantumInit
    /\ AgentInit("", "")

SeedSpec == StoredInit /\ [][SeedNext]_vars

PlanNext ==
    /\ \E selected_desires \in SelectedDesires(MaxSelected) :
          generate_action_plan(selected_desires)
    /\ UNCHANGED <<dvars, bvars, ivars, svars, qvars, avars>>

PlanSpec == DefaultInit /\ [][PlanNext]_vars

QuantumNext ==
    /\ \E problem \in Problems : solve_qaoa_optimization(problem)
    /\ UNCHANGED <<dvars, bvars, ivars, svars, pvars, avars>>

QuantumSpec == DefaultInit /\ [][QuantumNext]_vars

MainThread ==
    \/ enter_cycle
    \/ leave_loop
    \/ belief_phase
    \/ desire_phase
    \/ intention_phase
    \/ report_phase
    \/ trigger_phase
    \/ sleep
    \/ close

AgentNext ==
    /\ MainThread \/ signal_handler
    /\ UNCHANGED <<svars, pvars, qvars>>

ConfiguredInit ==
    /\ DesireInit /\ BeliefInit /\ IntentionInit /\ SeedIdle /\ PlanInit
    /\ QuantumInit
    /\ desires = init_default_desires(<<>>).table
    /\ \E url \in VercelUrls, repository \in GithubRepositories :
          AgentInit(url, repository)

AgentSpec == ConfiguredInit /\ [][AgentNext]_vars

StorageFaultNext ==
    \/ AgentNext
    \/ intention_phase_raises /\ UNCHANGED <<svars, pvars, qvars>>

StorageFaultSpec == ConfiguredInit /\ [][StorageFaultNext]_vars

(***************************************************************************)
(* Properties of the Desire System.                                        *)
(***************************************************************************)
Optimized == Len(desire_optimizations) > 0
LastOptimization == desire_optimizations[Len(desire_optimizations)]
Clamped(desire) == desire.type \in {"performance", "quality"}
IndexOfId(list, id) == CHOOSE i \in 1..Len(list) : list[i].id = id

\* C1: after every optimize cycle, whatever its cycle summary, every
\* performance goal and every quality goal has current_value in [0, 100],
\* in the table and in the list the cycle returned.
C1_ClampedValuesInRange ==
    /\ \A i \in 1..Len(desires) :
          Clamped(desires[i]) =>
             /\ desires[i].current_value >= V(0)
             /\ desires[i].current_value <= V(100)
    /\ \A k \in 1..Len(desire_optimizations) :
       \A i \in 1..Len(desire_optimizations[k].desires_snapshot) :
          LET desire == desire_optimizations[k].desires_snapshot[i]
          IN Clamped(desire) =>
                /\ desire.current_value >= V(0)
                /\ desire.current_value <= V(100)

\* a cycle has brought a performance goal to the upper clamp and a quality
\* goal to the lower clamp
C1_Witness ==
    /\ Optimized
    /\ \E i \in 1..Len(desires) :
          /\ desires[i].type = "performance"
          /\ desires[i].id = "uptime"
          /\ desires[i].current_value = V(100)
    /\ \E i \in 1..Len(desires) :
          /\ desires[i].type = "quality"
          /\ desires[i].id = "stability"
          /\ desires[i].current_value = V(0)

\* C2: after any sequence of optimize cycles the priority of every active
\* goal is in [0, 1], also for a goal with a negative target_value.
C2_PriorityInUnitInterval ==
    \A i \in 1..Len(desires) :
       desires[i].status = "active" =>
          /\ desires[i].priority >= 0
          /\ desires[i].priority <= Scale

\* a goal with a negative target has had its priority raised to 1.0
C2_Witness ==
    /\ Optimized
    /\ \E i \in 1..Len(desires) :
          /\ desires[i].status = "active"
          /\ desires[i].target_value < 0
          /\ desires[i].id = "debt_reduction"
          /\ desires[i].priority = Scale

\* C3 as stated: the ranking score of every goal in every optimize call is
\* in [0, 1].
C3_ScoreInUnitInterval ==
    \A k \in 1..Len(desire_optimizations) :
    \A i \in 1..Len(desire_optimizations[k].desires_snapshot) :
       LET desire == desire_optimizations[k].desires_snapshot[i]
       IN total_score(desire) >= 0 /\ total_score(desire) <= SScale

SameSign(desire) ==
    \/ desire.target_value >= 0 /\ desire.current_value >= 0
    \/ desire.target_value <= 0 /\ desire.current_value <= 0

\* C3 amended: the ranking score of every goal in every optimize call is
\* never negative, and it is at most 1 for a goal whose weight is at most 1
\* and whose target_value and current_value are not of opposite sign.
C3_ScoreInUnitIntervalForUnitWeight ==
    \A k \in 1..Len(desire_optimizations) :
    \A i \in 1..Len(desire_optimizations[k].desires_snapshot) :
       LET desire == desire_optimizations[k].desires_snapshot[i]
       IN /\ total_score(desire) >= 0
          /\ (desire.weight <= V(1) /\ SameSign(desire))
                => total_score(desire) <= SScale

\* a ranked goal of weight 1.0 and values of one sign scores exactly 1.0
C3_Witness ==
    /\ Optimized
    /\ \E i \in 1..Len(LastOptimization.desires_snapshot) :
          LET desire == LastOptimization.desires_snapshot[i]
          IN /\ desire.weight = V(1)
             /\ SameSign(desire)
             /\ desire.current_value # desire.target_value
             /\ total_score(desire) = SScale

C6_RankedIsSortedPermutation ==
    Optimized =>
       LET ranked == LastOptimization.optimization_result.prioritized_desires
           n == Len(ranked)
       IN /\ n = get_desires_count(desires)
          /\ n = Len(LastOptimization.desires_snapshot)
          /\ \A i \in 1..Len(desires) :
                desires[i].status = "active" =>
                   Cardinality({r \in 1..n : ranked[r] = desires[i]}) = 1
          /\ \A i \in 1..Len(LastOptimization.desires_snapshot) :
                Cardinality({r \in 1..n :
                    ranked[r] = LastOptimization.desires_snapshot[i]}) = 1
          /\ \A r \in 1..(n - 1) :
                total_score(ranked[r]) >= total_score(ranked[r + 1])
          /\ Len(desire_context.top_desires) = Min(5, n)
          /\ \A r \in 1..Min(5, n) : desire_context.top_desires[r] = ranked[r]
          /\ desire_context.count = n

\* six active goals were ranked, in another order than they were read, and
\* the top list holds the first five
C6_Witness ==
    /\ Optimized
    /\ LET ranked == LastOptimization.optimization_result.prioritized_desires
       IN /\ Len(ranked) = 6
          /\ Len(desire_context.top_desires) = 5
          /\ ranked # LastOptimization.desires_snapshot
          /\ total_score(ranked[1]) > total_score(ranked[6])

\* C7: two goals of equal score are ranked in the order they have in the
\* list given to the ranking step.
C7_RankingStable ==
    \A k \in 1..Len(desire_optimizations) :
       LET input == desire_optimizations[k].desires_snapshot
           ranked == desire_optimizations[k].optimization_result.prioritized_desires
       IN \A a, b \in 1..Len(ranked) :
             (a < b /\ total_score(ranked[a]) = total_score(ranked[b])) =>
                IndexOfId(input, ranked[a].id) < IndexOfId(input, ranked[b].id)

\* two goals of different priority and weight tie on the score, behind a
\* goal that the sort moved in front of both
C7_Witness ==
    /\ Optimized
    /\ LET input == LastOptimization.desires_snapshot
           ranked == LastOptimization.optimization_result.prioritized_desires
       IN \E a, b \in 1..Len(ranked) :
             /\ a < b
             /\ total_score(ranked[a]) = total_score(ranked[b])
             /\ ranked[a].priority # ranked[b].priority
             /\ \E c \in 1..Len(ranked) :
                   /\ c < a
                   /\ IndexOfId(input, ranked[c].id) > IndexOfId(input, ranked[b].id)

(***************************************************************************)
(* Properties of the Belief System.                                        *)
(***************************************************************************)
StoredIds(table) == {table[i].id : i \in 1..Len(table)}
DataIds(source_name, data) ==
    {belief_id(source_name, content_str(data[i])) : i \in 1..Len(data)}
SourceNames == {data_sources[k] : k \in 1..Len(data_sources)}
CollectedIds(probe_of) ==
    UNION {DataIds(source, collect_data(probe_of[source])) : source \in SourceNames}
RECURSIVE CollectedCount(_, _)
CollectedCount(k, probe_of) ==
    IF k > Len(data_sources) THEN 0
    ELSE Len(collect_data(probe_of[data_sources[k]])) + CollectedCount(k + 1, probe_of)

\* C5: ingesting a payload of a source that is already stored, or twice in
\* one call, leaves one stored belief of that id: every ingested item counts
\* as processed, only the first ingestion of an id counts as new and stores
\* a row, and no stored row is changed or removed.
C5_IdempotentIngestion ==
    [][/\ Len(beliefs') >= Len(beliefs)
       /\ SubSeq(beliefs', 1, Len(beliefs)) = beliefs
       /\ \A i, j \in 1..Len(beliefs') :
             beliefs'[i].id = beliefs'[j].id => i = j
       /\ belief_op' = "process_source_data" =>
             LET ids == DataIds(source_call'.source_name, source_call'.data)
             IN /\ source_result'.processed = Len(source_call'.data)
                /\ source_result'.new = Cardinality(ids \ StoredIds(beliefs))
                /\ StoredIds(beliefs') = StoredIds(beliefs) \cup ids
       /\ belief_op' = "update_beliefs" =>
             LET ids == CollectedIds(probes')
             IN /\ belief_results'.beliefs_processed = CollectedCount(1, probes')
                /\ belief_results'.new_beliefs = Cardinality(ids \ StoredIds(beliefs))
                /\ StoredIds(beliefs') = StoredIds(beliefs) \cup ids
      ]_vars

\* a call ingested three items of a source: one stored by an earlier cycle,
\* and a new one twice; it counted three processed and one new
C5_Witness ==
    /\ belief_op = "process_source_data"
    /\ Len(source_call.data) = 3
    /\ source_call.data[2] = source_call.data[3]
    /\ source_call.data[1] # source_call.data[2]
    /\ source_result = [processed |-> 3, new |-> 1]
    /\ belief_results.new_beliefs >= 1
    /\ Len(beliefs) >= 2
    /\ \E i \in 1..Len(beliefs) :
          /\ beliefs[i].timestamp < belief_clock
          /\ beliefs[i].id = belief_id(source_call.source_name,
                                       content_str(source_call.data[1]))
    /\ \A i, j \in 1..Len(beliefs) : beliefs[i].id = beliefs[j].id => i = j

(***************************************************************************)
(* Properties of the Intention System.                                     *)
(***************************************************************************)
Executed == intention_calls' = intention_calls + 1

\* C9: with a non-empty ranked list execute_intentions acts on the first
\* goal only: one call of the action function, with the parameters built
\* from that goal, one row appended to action_executions, and actions == 1.
C9_ActsOnTopDesireOnly ==
    [][(Executed /\ get_top_desires(intention_context') # <<>>) =>
          LET top_desire == get_top_desires(intention_context')[1]
          IN /\ Len(invocations') = Len(invocations) + 1
             /\ SubSeq(invocations', 1, Len(invocations)) = invocations
             /\ invocations'[Len(invocations')] =
                   [action_type |-> "send_notification",
                    params |-> [title |-> top_desire.name,
                                content |-> format_priority(top_desire.priority)]]
             /\ Len(action_executions') = Len(action_executions) + 1
             /\ SubSeq(action_executions', 1, Len(action_executions))
                   = action_executions
             /\ action_executions'[Len(action_executions')].action_type
                   = "send_notification"
             /\ intention_result'.actions = 1
             /\ Len(intention_result'.results) = 1
      ]_vars

\* the first call, on a list of several goals led by revenue_generation, has
\* notified of that goal alone and logged one row
C9_Witness ==
    /\ intention_calls = 1
    /\ Len(get_top_desires(intention_context)) >= 4
    /\ get_top_desires(intention_context)[1].id = "revenue_generation"
    /\ Len(invocations) = 1
    /\ invocations[1].params.title = "Revenue Generation"
    /\ Len(action_executions) = 1
    /\ intention_result.actions = 1

\* C10: with an empty ranked list execute_intentions returns actions == 0,
\* calls no action function and appends no row; and so does the dispatch of
\* every action type that is not in the registered action set.
C10_NoActionWithoutDesireOrActionType ==
    [][/\ (Executed /\ get_top_desires(intention_context') = <<>>) =>
             /\ intention_result'.actions = 0
             /\ invocations' = invocations
             /\ action_executions' = action_executions
       /\ \A action_type \in ActionTypes \ available_actions :
          \A outcome \in Outcomes :
             LET done == dispatched(action_executions, invocations, action_type,
                                    [title |-> "", content |-> 0], outcome)
             IN /\ actions_taken(done.result_summary) = 0
                /\ done.calls = invocations
                /\ done.table = action_executions
      ]_vars

\* after a call that acted, a call with the result of a failed optimization,
\* which has no ranked list, returned 0 and left the calls and the rows alone
C10_Witness ==
    /\ intention_calls = 2
    /\ "error" \in DOMAIN intention_context
    /\ get_top_desires(intention_context) = <<>>
    /\ intention_result.actions = 0
    /\ Len(invocations) = 1
    /\ Len(action_executions) = 1

(***************************************************************************)
(* C17, C18: the priority and quality rules across optimize cycles.        *)
(***************************************************************************)
\* C17: across every optimize cycle the stored priority of every active goal
\* is at least what it was before the cycle.
C17_PriorityNonDecreasing ==
    [][\A i \in 1..Len(desires) :
          desires[i].status = "active" =>
             /\ desires'[i].id = desires[i].id
             /\ desires'[i].priority >= desires[i].priority]_vars

\* two cycles have run and the second one raised the stored priority of an
\* active goal that was still below 1.0
C17_Witness ==
    /\ Len(desire_optimizations) >= 2
    /\ LET last == LastOptimization.desires_snapshot
           before == desire_optimizations[Len(desire_optimizations) - 1].desires_snapshot
       IN \E i \in 1..Len(last) :
             /\ before[IndexOfId(before, last[i].id)].priority < last[i].priority
             /\ last[i].priority < Scale

\* C18: the quality rule is a flat step: a cycle without errors puts a
\* quality goal at min(100, current_value + 1.0) and a cycle with errors at
\* max(0, current_value - 2.0), whatever the number of errors; from the
\* default 75.0 that is 76.0 and 73.0.
C18_QualityFlatStep ==
    [][\A i \in 1..Len(desires) :
          (desires[i].type = "quality" /\ desires[i].status = "active") =>
             LET before == desires[i].current_value
                 after == desires'[i].current_value
             IN /\ belief_context'.errors = 0 =>
                      after = (IF before + V(1) > V(100) THEN V(100) ELSE before + V(1))
                /\ belief_context'.errors > 0 =>
                      after = (IF before - V(2) < V(0) THEN V(0) ELSE before - V(2))
                /\ before = V(75) =>
                      after = (IF belief_context'.errors = 0 THEN V(76) ELSE V(73))]_vars

\* the first cycle over the default goals ran with three errors and left
\* user_satisfaction at 73.0
C18_Witness ==
    /\ Len(desire_optimizations) = 1
    /\ belief_context.errors = 3
    /\ \E i \in 1..Len(desires) :
          /\ desires[i].id = "user_satisfaction"
          /\ desires[i].type = "quality"
          /\ desires[i].current_value = V(73)

(***************************************************************************)
(* C14: a failing source in update_beliefs.                                *)
(***************************************************************************)
FailedSources(probe_of) == {s \in SourceNames : probe_of[s].status = "failed"}

\* C14: after update_beliefs the summary's errors counter is the number of
\* sources whose collection failed, these sources are not counted as
\* processed, and the data of every other source is ingested.
C14_FailedSourceCountsAsError ==
    belief_op = "update_beliefs" =>
       /\ belief_results.errors = Cardinality(FailedSources(probes))
       /\ belief_results.sources_processed =
             Len(data_sources) - Cardinality(FailedSources(probes))
       /\ CollectedIds(probes) \subseteq StoredIds(beliefs)

(***************************************************************************)
(* C15: seeding the default goals.                                         *)
(***************************************************************************)
Seeded == seed_calls' = seed_calls + 1

\* C15: a seeding call inserts the four defaults only into an empty
\* registry, changes nothing in a registry that is not empty, raises no
\* error, and leaves no goal id stored twice.
C15_SeedingIdempotent ==
    [][Seeded =>
          /\ ~ seed_raised'
          /\ desires = <<>> => desires' = default_desires
          /\ desires # <<>> => desires' = desires
          /\ \A i, j \in 1..Len(desires') :
                desires'[i].id = desires'[j].id => i = j]_vars

(***************************************************************************)
(* C16: the classical optimizer of the action planner.                     *)
(***************************************************************************)
\* the capacities a caller can have in mind, in tenths
Capacities == {5, 10}

\* a before b in the order of value / weight ratio, highest first
RatioBefore(a, b) == a.impact * b.cost > b.impact * a.cost

\* list holds its actions by non-increasing value / weight ratio
RatioSorted(list) ==
    \A i, j \in 1..Len(list) : i < j => ~ RatioBefore(list[j], list[i])

\* C16: whatever the capacity, the selected actions weigh no more than it in
\* total, and they are the first actions of the candidates sorted by
\* value / weight ratio, in that order.
C16_SelectionWithinCapacityAndPrefix ==
    plan_calls > 0 =>
       /\ \A capacity \in Capacities :
             sum_of(optimized_plan, "cost") <= capacity
       /\ RatioSorted(optimized_plan)
       /\ \A a \in {optimized_plan[i] : i \in 1..Len(optimized_plan)} :
             \A k \in 1..Len(candidate_actions(plan_desires)) :
                LET b == candidate_actions(plan_desires)[k]
                IN RatioBefore(b, a) =>
                      \E i \in 1..Len(optimized_plan) : optimized_plan[i] = b

(***************************************************************************)
(* C11, C12, C13, C19, C20: the run loop, its shutdown and its failures.   *)
(***************************************************************************)
\* the pc after pc inside run_bdi_cycle and the sleep that follows it
NextPhase(at) ==
    CASE at = "run_bdi_cycle" -> "desire"
      [] at = "desire" -> "intention"
      [] at = "intention" -> "report"
      [] at = "report" -> "trigger"
      [] at = "trigger" -> "sleep"
      [] at = "sleep" -> "while"

\* the pc after pc once the running flag is clear
AfterSignal(at) ==
    CASE at = "while" -> "close"
      [] at = "close" -> "stopped"
      [] OTHER -> NextPhase(at)

MainThreadStepped == pc' # pc

\* C11: an exception in a phase of a cycle does not end the run loop: the
\* loop is left only after a termination signal has been received.
C11_LoopLeftOnlyAfterSignal ==
    pc \in {"close", "stopped", "crashed"} => signalled

\* what the claims of shutdown share: the handler clears the running flag
\* and leaves the main thread where it is; every later step of the main
\* thread is the next one of the remaining phases, the sleep, the loop test
\* that leaves the loop and the close of the store; the store is closed by
\* that last step only
NotPreemptive ==
    /\ (signalled' /\ ~ signalled) =>
          /\ ~ running'
          /\ pc' = pc
          /\ UNCHANGED <<cycle_count, store_closed, dvars, bvars, ivars>>
    /\ (signalled /\ MainThreadStepped) => pc' = AfterSignal(pc)
    /\ store_closed' => pc' = "stopped"

\* C12 as claimed: shutdown is not preemptive, and no cycle starts once the
\* signal has been received.
C12_NoCycleStartsAfterSignal ==
    [][NotPreemptive /\ (signalled => cycle_count' = cycle_count)]_vars

\* C12: shutdown is not preemptive; the only cycle that starts after the
\* signal is one whose loop test had passed when the signal arrived; every
\* step after the signal leads on to the exit of the loop and the close of
\* the store.
C12_AtMostTheTestedCycleStartsAfterSignal ==
    [][/\ NotPreemptive
       /\ (signalled /\ cycle_count' # cycle_count) =>
             /\ signal_at.pc = "run_bdi_cycle"
             /\ cycle_count = signal_at.cycle_count
             /\ cycle_count' = cycle_count + 1
       /\ (signalled /\ pc = "while") => ~ running]_vars

\* the signal arrived between the loop test and the cycle; that cycle ran
\* all its phases, and the loop was left and the store closed
C12_Witness ==
    /\ signalled
    /\ signal_at.pc = "run_bdi_cycle"
    /\ cycle_count = signal_at.cycle_count + 1
    /\ intention_calls = cycle_count
    /\ pc = "stopped"
    /\ store_closed

AgentReport(status) == [component |-> "termux_agent", status |-> status]

\* C13: no "active" report of termux_agent is posted after an "offline"
\* report of it.
C13_OfflineIsFinal ==
    \A i, j \in 1..Len(statuses) :
       (i < j /\ statuses[i] = AgentReport("offline")) =>
          statuses[j] # AgentReport("active")

\* C19: an optimize_desires whose body raises returns an error with count 0
\* and no ranked goals, and the execute_intentions of that cycle calls no
\* action function, stores no record and returns 0 actions.
C19_NoActionAfterFailedOptimization ==
    [][/\ (pc = "desire" /\ optimize_raised') =>
             /\ "error" \in DOMAIN desire_context'
             /\ desire_context'.count = 0
             /\ "top_desires" \notin DOMAIN desire_context'
             /\ desire_optimizations' = desire_optimizations
       /\ (pc = "intention" /\ MainThreadStepped /\ optimize_raised) =>
             /\ invocations' = invocations
             /\ action_executions' = action_executions
             /\ intention_result'.actions = 0]_vars

\* the second cycle's optimization failed after the first cycle had acted:
\* the second cycle is at its report with 0 actions and no new record
C19_Witness ==
    /\ optimize_raised
    /\ pc = "report"
    /\ cycle_count = 2
    /\ Len(invocations) = 1
    /\ Len(action_executions) = 1
    /\ intention_result.actions = 0

\* C20: when the notification command fails, execute_intentions returns
\* with one call of the action function and one stored record of status
\* failed; nothing is called or stored again in that cycle, whose next
\* steps are the report, the trigger and the sleep that ends it.
C20_FailedNotificationIsLoggedOnce ==
    [][/\ (pc = "intention" /\ MainThreadStepped
                         /\ command_outcome' = "command_failed") =>
             /\ pc' = "report"
             /\ Len(invocations') = Len(invocations) + 1
             /\ action_executions' =
                   Append(action_executions,
                          [action_type |-> "send_notification",
                           status |-> "failed"])
             /\ intention_result'.actions = 1
       /\ pc # "intention" =>
             /\ invocations' = invocations
             /\ action_executions' = action_executions
       /\ (command_outcome = "command_failed" /\ MainThreadStepped
                                              /\ pc \in {"report", "trigger"}) =>
             pc' = NextPhase(pc)]_vars

\* a cycle whose notification failed is at its sleep, with one record of
\* status failed for the cycle
C20_Witness ==
    /\ command_outcome = "command_failed"
    /\ pc = "sleep"
    /\ cycle_count = 1
    /\ Len(invocations) = 1
    /\ Len(action_executions) = 1
    /\ action_executions[1].status = "failed"

(***************************************************************************)
(* C23..C27: the value rules and the frame of an optimize cycle.           *)
(***************************************************************************)
\* C23: in a cycle with beliefs_processed > 0 the current_value of a
\* performance goal goes up by min(5.0, beliefs_processed * 0.1) and is
\* clamped to [0, 100]; with beliefs_processed = 0 it is unchanged; from 80.0
\* with beliefs_processed = 10 it becomes 81.0; no cycle raises it by more
\* than 5.0.
C23_PerformanceRule ==
    [][\A i \in 1..Len(desires) :
          (desires[i].type = "performance" /\ desires[i].status = "active") =>
             LET before == desires[i].current_value
                 after == desires'[i].current_value
                 processed == belief_context'.beliefs_processed
                 tenth == (processed * VScale) \div 10
                 raised == before + (IF tenth > V(5) THEN V(5) ELSE tenth)
             IN /\ desires'[i].id = desires[i].id
                /\ processed > 0 =>
                      after = (IF raised > V(100) THEN V(100)
                               ELSE IF raised < V(0) THEN V(0) ELSE raised)
                /\ processed = 0 => after = before
                /\ (before = V(80) /\ processed = 10) => after = V(81)
                /\ after - before <= V(5)]_vars

\* the first cycle over the default goals ran with beliefs_processed = 10
\* and left system_efficiency at 81.0
C23_Witness ==
    /\ Len(desire_optimizations) = 1
    /\ belief_context.beliefs_processed = 10
    /\ \E i \in 1..Len(desires) :
          /\ desires[i].id = "system_efficiency"
          /\ desires[i].type = "performance"
          /\ desires[i].current_value = V(81)

\* C24: every optimize cycle adds exactly new_beliefs * 10.0 to the
\* current_value of every financial goal of the cycle, without any clamp:
\* the value never decreases and goes past 100 and past its target_value.
C24_FinancialRule ==
    [][\A i \in 1..Len(desires) :
          (desires[i].type = "financial" /\ desires[i].status = "active") =>
             LET before == desires[i].current_value
                 after == desires'[i].current_value
             IN /\ desires'[i].id = desires[i].id
                /\ after = before + belief_context'.new_beliefs * V(10)
                /\ after >= before]_vars

\* three cycles with two new beliefs each have taken cost_optimization from
\* 100.0 to 160.0, above 100 and above its target 0.0
C24_Witness ==
    /\ Len(desire_optimizations) = 3
    /\ \E i \in 1..Len(desires) :
          /\ desires[i].id = "cost_optimization"
          /\ desires[i].type = "financial"
          /\ desires[i].current_value = V(160)
          /\ desires[i].current_value > V(100)
          /\ desires[i].current_value > desires[i].target_value

\* C25: the priority a cycle stores is min(1.0, priority + urgency * 0.1)
\* with urgency = gap / max_gap, gap = |target_value - current_value| on the
\* updated current_value and max_gap = max(1.0, |target_value|), for every
\* target_value, negative and zero included.
C25_PriorityByAbsoluteTarget ==
    [][\A i \in 1..Len(desires) :
          desires[i].status = "active" =>
             LET target == desires[i].target_value
                 gap == Abs(target - desires'[i].current_value)
                 max_gap == IF Abs(target) > V(1) THEN Abs(target) ELSE V(1)
                 raised == desires[i].priority + (gap * (Scale \div 10)) \div max_gap
             IN /\ desires'[i].id = desires[i].id
                /\ desires'[i].priority = (IF raised > Scale THEN Scale ELSE raised)]_vars

\* C26: an optimize cycle changes nothing of a goal but current_value and
\* priority (updated_at is not modelled): id, name, type, target_value,
\* weight and status of every row stay as they are, no row is added or
\* removed, and a goal whose type is none of performance, financial and
\* quality keeps its current_value.
C26_CycleFrame ==
    [][/\ Len(desires') = Len(desires)
       /\ \A i \in 1..Len(desires) :
             /\ desires'[i].id = desires[i].id
             /\ desires'[i].name = desires[i].name
             /\ desires'[i].type = desires[i].type
             /\ desires'[i].target_value = desires[i].target_value
             /\ desires'[i].weight = desires[i].weight
             /\ desires'[i].status = desires[i].status
             /\ desires[i].type \notin {"performance", "financial", "quality"} =>
                   desires'[i].current_value = desires[i].current_value]_vars

\* two cycles have run, the last one with processed and new beliefs, and the
\* goal of type learning still has its stored current_value 4.0 while its
\* priority has been raised
C26_Witness ==
    /\ Len(desire_optimizations) >= 2
    /\ belief_context.beliefs_processed > 0
    /\ belief_context.new_beliefs > 0
    /\ \E i \in 1..Len(desires) :
          /\ desires[i].id = "learning"
          /\ desires[i].type = "learning"
          /\ desires[i].current_value = V(4)
          /\ desires[i].priority > 500
          /\ desires[i].weight = 5

InactiveIds(table) == {table[i].id : i \in {j \in 1..Len(table) : table[j].status = "inactive"}}
InactiveNames(table) == {table[i].name : i \in {j \in 1..Len(table) : table[j].status = "inactive"}}
IdsOf(list) == {list[i].id : i \in 1..Len(list)}

\* C27: a goal with status inactive takes no part in an optimize cycle: its
\* row is left as it is, it is not among the goals the cycle reads and
\* updates, not in the ranked list and not in the top goals the cycle
\* returns, so the action selected from that result is not for it.
C27_InactiveGoalsTakeNoPart ==
    [][/\ \A i \in 1..Len(desires) :
             desires[i].status = "inactive" => desires'[i] = desires[i]
       /\ LET saved == desire_optimizations'[Len(desire_optimizations')]
              top_desires == get_top_desires(desire_context')
          IN /\ IdsOf(saved.desires_snapshot) \cap InactiveIds(desires) = {}
             /\ IdsOf(saved.optimization_result.prioritized_desires)
                   \cap InactiveIds(desires) = {}
             /\ IdsOf(top_desires) \cap InactiveIds(desires) = {}
             /\ top_desires # <<>> =>
                   select_action_for_desire(selected_desire(top_desires)).params.title
                      \notin InactiveNames(desires)]_vars

\* a cycle with errors has run on the stored registry and ranked its active
\* goals, and the inactive quality goal, whose priority 0.9 is above that of
\* some ranked goal, still has current_value 50.0 and priority 0.9
C27_Witness ==
    /\ Optimized
    /\ belief_context.errors > 0
    /\ get_top_desires(desire_context) # <<>>
    /\ \E r \in 1..Len(desire_context.top_desires) :
          desire_context.top_desires[r].priority < 900
    /\ \E i \in 1..Len(desires) :
          /\ desires[i].id = "retired"
          /\ desires[i].status = "inactive"
          /\ desires[i].type = "quality"
          /\ desires[i].current_value = V(50)
          /\ desires[i].priority = 900

(***************************************************************************)
(* C28: the counters of update_beliefs.                                    *)
(***************************************************************************)
\* C28: no step deletes or modifies a stored observation, and for every
\* update_beliefs cycle new_beliefs <= beliefs_processed, the number of
\* stored observations grows by new_beliefs, count is the number stored
\* after the cycle, and sources_processed + errors is the number of sources.
C28_BeliefCounters ==
    [][/\ Len(beliefs') >= Len(beliefs)
       /\ SubSeq(beliefs', 1, Len(beliefs)) = beliefs
       /\ belief_op' = "update_beliefs" =>
             /\ belief_results'.new_beliefs <= belief_results'.beliefs_processed
             /\ Len(beliefs') = Len(beliefs) + belief_results'.new_beliefs
             /\ belief_results'.count = Len(beliefs')
             /\ belief_results'.sources_processed + belief_results'.errors
                   = Len(data_sources)]_vars

\* the second update_beliefs cycle found two observations already stored
\* and one new one, with every source delivering: 3 processed, 1 new, 4 stored
C28_Witness ==
    /\ belief_op = "update_beliefs"
    /\ belief_clock = 2
    /\ belief_results.beliefs_processed = 3
    /\ belief_results.new_beliefs = 1
    /\ belief_results.count = 4
    /\ Len(beliefs) = 4

(***************************************************************************)
(* C30: the classical fallback of the desire optimizer.                    *)
(***************************************************************************)
RECURSIVE SetSum(_, _)
SetSum(f, S) ==
    IF S = {} THEN 0
    ELSE LET x == CHOOSE y \in S : TRUE IN f[x] + SetSum(f, S \ {x})

\* utility - cost summed over the candidates at the positions S
SubsetValue(candidates, S) ==
    SetSum([i \in 1..Len(candidates) |-> candidates[i].utility - candidates[i].cost], S)

\* x^T Q x for the 0/1 vector x that is 1 at the positions S
QuboValue(Q, S) == SetSum([p \in S \X S |-> Q[p[1]][p[2]]], S \X S)

\* the k-th position of S, in increasing order
KthOf(S, k) == CHOOSE i \in S : Cardinality({j \in S : j < i}) = k - 1

\* C30: the classical fallback selects exactly the candidates with
\* utility > cost, in input order; net_value is the sum of utility - cost
\* over them, is not negative, is the largest such sum over all subsets of
\* the candidates, and its negation is the minimum of the QUBO form.
C30_ClassicalFallbackOptimal ==
    Len(quantum_results) > 0 =>
       LET candidates == quantum_problem.desires
           Q == quantum_problem.qubo_matrix
           last == quantum_results[Len(quantum_results)]
           solution == last.solution
           n == Len(candidates)
           Chosen == {i \in 1..n : candidates[i].utility > candidates[i].cost}
       IN /\ last.optimization_type = "classical_fallback"
          /\ Len(solution.selected_desires) = Cardinality(Chosen)
          /\ solution.total_selected = Cardinality(Chosen)
          /\ \A k \in 1..Len(solution.selected_desires) :
                solution.selected_desires[k] = candidates[KthOf(Chosen, k)]
          /\ solution.net_value = SubsetValue(candidates, Chosen)
          /\ solution.net_value >= 0
          /\ \A S \in SUBSET (1..n) :
                /\ SubsetValue(candidates, S) <= solution.net_value
                /\ QuboValue(Q, S) >= - solution.net_value
          /\ QuboValue(Q, Chosen) = - solution.net_value

\* the problem formulated from the optimization score 0.375: the first
\* candidate costs what it yields and is left out, the two others are
\* selected, with net value 0.0375 + 0.1
C30_Witness ==
    /\ Len(quantum_results) > 0
    /\ quantum_problem = formulate_optimization_problem([optimization_score |-> 375])
    /\ quantum_results[Len(quantum_results)].solution.total_selected = 2
    /\ quantum_results[Len(quantum_results)].solution.net_value = 1375
    /\ quantum_results[Len(quantum_results)].solution.selected_desires[1].id
          = "increase_stability"

(***************************************************************************)
(* C21, C22, C29: the sleep between cycles and the remote calls.           *)
(***************************************************************************)
\* C21: the sleep after a cycle lasts max(0, interval - elapsed), elapsed
\* being the time the cycle took: after a cycle shorter than the interval
\* the next cycle starts one interval after the start of this one, and
\* after a longer cycle the sleep is 0.
C21_SleepIsRemainderOfInterval ==
    [][(pc = "sleep" /\ pc' = "while") =>
          LET elapsed == wall_clock - cycle_started
              slept == wall_clock' - wall_clock
          IN /\ slept = Max(0, cycle_interval - elapsed)
             /\ elapsed < cycle_interval =>
                   wall_clock' = cycle_started + cycle_interval
             /\ elapsed > cycle_interval => slept = 0]_vars

\* a call that failed: no request for want of configuration, an exception
\* of the request, or a status code other than the success code of the call
FailedCall(call) ==
    \/ call.response.exception # "none"
    \/ call.name = "update_vercel_status" /\ call.response.status_code # 200
    \/ call.name = "trigger_github_workflow" /\ call.response.status_code # 204

\* C22: a failed status report or workflow trigger returns false and raises
\* nothing: the step that made the call goes on to the next phase, every
\* phase of the cycle is followed by the next one up to the sleep and the
\* loop test, and the loop test of a running agent starts the next cycle.
C22_RemoteFailureIsContained ==
    [][/\ \A k \in 1..Len(remote_calls') :
             FailedCall(remote_calls'[k]) => remote_calls'[k].returned = FALSE
       /\ pc' # "crashed"
       /\ (MainThreadStepped /\ pc \notin {"while", "close"}) => pc' = NextPhase(pc)
       /\ (MainThreadStepped /\ pc = "while" /\ running) => pc' = "run_bdi_cycle"]_vars

\* the trigger of the first cycle failed, the second cycle has run, and its
\* status report timed out and returned false; the cycle goes on
C22_Witness ==
    /\ ~ signalled
    /\ cycle_count = 2
    /\ pc = "trigger"
    /\ Len(dispatches) >= 1
    /\ dispatches[1].accepted = FALSE
    /\ dispatches[1].time < cycle_started
    /\ remote_calls = << RemoteCall("update_vercel_status",
                                    Response(0, "Timeout"), FALSE) >>

\* the time of the last trigger that succeeded; none yet: -1
LastSuccess ==
    LET accepted == {i \in 1..Len(dispatches) : dispatches[i].accepted}
    IN IF accepted = {} THEN -1
       ELSE dispatches[CHOOSE i \in accepted : \A j \in accepted : j <= i].time

\* the calls a step has made to trigger the workflow
TriggerCalls(calls) ==
    {k \in 1..Len(calls) : calls[k].name = "trigger_github_workflow"}

TriggeredReports(posted) ==
    {k \in 1..Len(posted) :
        posted[k] = [component |-> "quantum_processor", status |-> "triggered"]}

\* C29: the trigger step of a cycle calls the trigger exactly when no
\* trigger has succeeded yet or the last one that succeeded is more than
\* five minutes old; last_github_trigger moves, to the present, and a
\* "triggered" report is posted only when the call succeeded; a failed call
\* leaves last_github_trigger as it is, and the cycle after a failed call
\* calls the trigger again.
C29_ThrottledBySuccessOnly ==
    [][/\ pc = "trigger" =>
             LET attempts == TriggerCalls(remote_calls')
                 due == LastSuccess = -1 \/ wall_clock - LastSuccess > trigger_period
             IN /\ (attempts # {}) <=> (due /\ pc' # pc)
                /\ Cardinality(attempts) <= 1
                /\ (Len(dispatches) > 0 /\ ~ dispatches[Len(dispatches)].accepted
                    /\ pc' # pc) => attempts # {}
       /\ last_github_trigger' # last_github_trigger =>
             /\ pc = "trigger"
             /\ \E k \in TriggerCalls(remote_calls') : ~ FailedCall(remote_calls'[k])
             /\ last_github_trigger' = wall_clock
       /\ TriggeredReports(statuses') # TriggeredReports(statuses) =>
             /\ pc = "trigger"
             /\ \E k \in TriggerCalls(remote_calls') : ~ FailedCall(remote_calls'[k])
       /\ (\E k \in TriggerCalls(remote_calls') : FailedCall(remote_calls'[k])) =>
             /\ last_github_trigger' = last_github_trigger
             /\ statuses' = statuses]_vars

\* the trigger of the first cycle failed; the second cycle called it again,
\* it succeeded, last_github_trigger is the time of that call and the
\* "triggered" report was posted
C29_Witness ==
    /\ cycle_count = 2
    /\ pc = "sleep"
    /\ Len(dispatches) = 2
    /\ ~ dispatches[1].accepted
    /\ dispatches[2].accepted
    /\ last_github_trigger = wall_clock
    /\ last_github_trigger = dispatches[2].time
    /\ Len(remote_calls) = 2
    /\ remote_calls[1].returned
    /\ TriggeredReports(statuses) # {}

====
